---- MODULE Spec2Model ----
(***************************************************************************)
(* A model of the two-dimensional k-d tree of src/kdtree.py: construction  *)
(* by recursive median splitting (build_tree), exact membership (lookup),  *)
(* nearest-neighbour search (get_nearest) and the text rendering           *)
(* (display_tree).                                                         *)
(*                                                                         *)
(* Numbers.  A coordinate is the real number  w + f * Step  where w and f  *)
(* are integers and Step is 10^-5 / Steps, a fixed fraction of the fifth   *)
(* decimal place; it is written [w |-> w, f |-> f].  Products of           *)
(* coordinate differences are polynomials in Step, kept as the tuple of    *)
(* their five coefficients <<c0, c1, c2, c3, c4>>.  Every coefficient the  *)
(* model produces is far below 1/Step (> 10^5), so comparing two such      *)
(* numbers is comparing their coefficients from c0 on.  Comparisons are    *)
(* those of exact real arithmetic.                                         *)
(***************************************************************************)
EXTENDS Integers, Sequences, FiniteSets, TLC

VARIABLES
    data,    \* the list the caller passes to KDTree(data) (kdtree.py:120)
    KDTree,  \* self.KDTree, the root node or None (kdtree.py:118, 125)
    pc,      \* the caller: "new", "ready" for a query, "returned" from one
    call,    \* the method last called, with its arguments
    ret      \* how that call ended: Return(type, value) or Raise(exception)

vars == <<data, KDTree, pc, call, ret>>

(* Bounds of the model. *)
MaxLen == 3
MaxCoord == 2
HalfSteps == 1
MaxValue == 2

(* Number of grid steps in 10^-5; odd, so no value lies half way. *)
Steps == 2 * HalfSteps + 1

(* Python's None and float('inf'), shaped so that they compare unequal to *)
(* every node, record and distance.                                       *)
None == [none |-> TRUE]
inf == <<"inf">>

---------------------------------------------------------------------------
(* Floating-point values and their arithmetic. *)

Coord(w, f) == [w |-> w, f |-> f]

(* a < b on floats *)
Lt(a, b) == a.w < b.w \/ (a.w = b.w /\ a.f < b.f)

(* a - b, as dw + df * Step *)
Diff(a, b) == [w |-> a.w - b.w, f |-> a.f - b.f]

(* d ** 2 *)
Square(d) == <<d.w * d.w, 2 * d.w * d.f, d.f * d.f, 0, 0>>

(* (d ** 2) ** 2 *)
Fourth(d) ==
    <<d.w * d.w * d.w * d.w,
      4 * d.w * d.w * d.w * d.f,
      6 * d.w * d.w * d.f * d.f,
      4 * d.w * d.f * d.f * d.f,
      d.f * d.f * d.f * d.f>>

PolyAdd(p, q) == [i \in 1..5 |-> p[i] + q[i]]

PolyLt(p, q) == \E i \in 1..5 : p[i] < q[i] /\ \A j \in 1..(i - 1) : p[j] = q[j]

(* round(x, 5): the nearest multiple of 10^-5 *)
round5(x) == Coord(x.w, ((x.f + HalfSteps) \div Steps) * Steps)

---------------------------------------------------------------------------
(* Point records. *)

MunicipalTree(id, lon, lat) == [id |-> id, lat |-> lat, lon |-> lon]

(* The coordinates of the model: longitudes 1, 3, 5, ... (two units       *)
(* apart); latitudes the same and one value a single grid step above 1,   *)
(* which rounds to 1.                                                     *)
Lons == {Coord(2 * k - 1, 0) : k \in 1..MaxCoord}

Lats == Lons \cup {Coord(1, 1)}

Points == Lats \X Lons

(* The collections a caller can pass: record i is the i-th one created. *)
Inputs ==
    UNION {{[i \in 1..n |-> MunicipalTree(i, pts[i][2], pts[i][1])] :
                pts \in [1..n -> Points]} : n \in 0..MaxLen}

---------------------------------------------------------------------------
(* Construction. *)

(* (tree.lat, tree.lon)[dim] *)
axis_value(tree, dim) == IF dim = 0 THEN tree.lat ELSE tree.lon

(* Variant: t goes in front of the elements with its own key (a sort      *)
(* that is not stable).                                                   *)
RECURSIVE insert_before_equal(_, _, _)
insert_before_equal(s, t, dim) ==
    IF s = <<>> THEN <<t>>
    ELSE IF ~Lt(axis_value(s[Len(s)], dim), axis_value(t, dim))
         THEN Append(insert_before_equal(SubSeq(s, 1, Len(s) - 1), t, dim), s[Len(s)])
         ELSE Append(s, t)

(* t goes behind every element whose key is not greater than its own *)
RECURSIVE insert_sorted(_, _, _)
insert_sorted(s, t, dim) ==
    IF s = <<>> THEN <<t>>
    ELSE IF Lt(axis_value(t, dim), axis_value(s[Len(s)], dim))
         THEN Append(insert_sorted(SubSeq(s, 1, Len(s) - 1), t, dim), s[Len(s)])
         ELSE Append(s, t)

(* list.sort(key=...): ascending by the key, stable *)
RECURSIVE sort(_, _)
sort(s, dim) ==
    IF s = <<>> THEN <<>>
    ELSE insert_sorted(sort(SubSeq(s, 1, Len(s) - 1), dim), s[Len(s)], dim)

(* Variant: the lower median, (len(data) - 1) // 2. *)
median_idx_low(sorted) == (Len(sorted) - 1) \div 2

median_idx(sorted) == Len(sorted) \div 2

(* data[:median_idx] *)
before_median(sorted, m) == SubSeq(sorted, 1, m)

(* Variant: data[median_idx + 2:], one index too far. *)
after_median_skipping(sorted, m) == SubSeq(sorted, m + 3, Len(sorted))

(* data[median_idx + 1:] *)
after_median(sorted, m) == SubSeq(sorted, m + 2, Len(sorted))

_KDTNode(tree, pivot, left, right) ==
    [tree |-> tree, pivot |-> pivot, left |-> left, right |-> right]

(* The node build_tree returns.  Indices of Python are 0-based, those of  *)
(* a sequence 1-based: data[median_idx] is sorted[median_idx + 1].        *)
RECURSIVE build_tree(_, _)
build_tree(d, depth) ==
    IF d = <<>> THEN None
    ELSE LET dim == depth % 2
             sorted == sort(d, dim)
             m == median_idx(sorted)
             median_tree == sorted[m + 1]
             pivot == axis_value(median_tree, dim)
         IN  _KDTNode(median_tree, pivot,
                      build_tree(before_median(sorted, m), depth + 1),
                      build_tree(after_median(sorted, m), depth + 1))

(* Variant: the recursive calls sort the caller's list too, as they would *)
(* if a slice were a view of the list.                                    *)
RECURSIVE sorted_through_views(_, _)
sorted_through_views(d, depth) ==
    IF d = <<>> THEN d
    ELSE LET sorted == sort(d, depth % 2)
             m == median_idx(sorted)
         IN  sorted_through_views(before_median(sorted, m), depth + 1)
                 \o <<sorted[m + 1]>>
                 \o sorted_through_views(after_median(sorted, m), depth + 1)

(* The caller's list after build_tree(d, depth): data.sort works in       *)
(* place, the recursive calls get slices, which are copies.               *)
sorted_in_place(d, depth) == IF d = <<>> THEN d ELSE sort(d, depth % 2)

---------------------------------------------------------------------------
(* Exact lookup. *)

(* lat if dim == 0 else lon *)
query_value(lat, lon, dim) == IF dim = 0 THEN lat ELSE lon

(* Variant: only the latitudes are compared. *)
same_rounded_lat(tree, lat, lon) == round5(lat) = round5(tree.lat)

(* the test of line 214: equal when both are rounded to 5 decimals *)
same_rounded(tree, lat, lon) ==
    round5(lat) = round5(tree.lat) /\ round5(lon) = round5(tree.lon)

(* Variant: the descent takes the right subtree below the pivot and the   *)
(* left one otherwise.                                                    *)
RECURSIVE _lookup_recursive_swapped(_, _, _, _)
_lookup_recursive_swapped(node, lat, lon, depth) ==
    IF node = None THEN FALSE
    ELSE IF same_rounded(node.tree, lat, lon) THEN TRUE
    ELSE LET dim == depth % 2
             pivot == node.pivot
         IN  IF Lt(query_value(lat, lon, dim), pivot)
             THEN _lookup_recursive_swapped(node.right, lat, lon, depth + 1)
             ELSE _lookup_recursive_swapped(node.left, lat, lon, depth + 1)

RECURSIVE _lookup_recursive(_, _, _, _)
_lookup_recursive(node, lat, lon, depth) ==
    IF node = None THEN FALSE
    ELSE IF same_rounded(node.tree, lat, lon) THEN TRUE
    ELSE LET dim == depth % 2
             pivot == node.pivot
         IN  IF Lt(query_value(lat, lon, dim), pivot)
             THEN _lookup_recursive(node.left, lat, lon, depth + 1)
             ELSE _lookup_recursive(node.right, lat, lon, depth + 1)

(* Variant: an empty index answers True. *)
lookup_vacuous(root, lat, lon) ==
    root = None \/ _lookup_recursive(root, lat, lon, 0)

lookup(root, lat, lon) == _lookup_recursive(root, lat, lon, 0)

---------------------------------------------------------------------------
(* Nearest neighbour.  A distance math.sqrt(s) is carried as s, its       *)
(* square: sqrt(s) < sqrt(t) iff s < t, and for x >= 0, x < sqrt(t) iff   *)
(* x ** 2 < t.  float('inf') is inf.                                      *)

(* the argument of math.sqrt in line 236 *)
dist(tree, lat, lon) ==
    PolyAdd(Square(Diff(tree.lat, lat)), Square(Diff(tree.lon, lon)))

(* dist < best[1] *)
closer(d, best) == best[2] = inf \/ PolyLt(d, best[2])

(* Variant: the other subtree is never searched. *)
far_side_never(pivot, q, best) == FALSE

(* (pivot - q) ** 2 < best[1], line 246 *)
far_side_needed(pivot, q, best) ==
    best[2] = inf \/ PolyLt(Fourth(Diff(pivot, q)), best[2])

RECURSIVE _get_nearest_recursive(_, _, _, _, _)
_get_nearest_recursive(node, lat, lon, depth, best) ==
    IF node = None THEN best
    ELSE LET d == dist(node.tree, lat, lon)
             best1 == IF closer(d, best) THEN <<node.tree, d>> ELSE best
             dim == depth % 2
             pivot == node.pivot
             q == query_value(lat, lon, dim)
             near == IF Lt(q, pivot) THEN node.left ELSE node.right
             far == IF Lt(q, pivot) THEN node.right ELSE node.left
             best2 == _get_nearest_recursive(near, lat, lon, depth + 1, best1)
         IN  IF far_side_needed(pivot, q, best2)
             THEN _get_nearest_recursive(far, lat, lon, depth + 1, best2)
             ELSE best2

get_nearest(root, lat, lon) ==
    _get_nearest_recursive(root, lat, lon, 0, <<None, inf>>)[1]

---------------------------------------------------------------------------
(* Rendering. *)

(* n * c for a one-character string c; empty when n <= 0 *)
RECURSIVE Rep(_, _)
Rep(n, c) == IF n <= 0 THEN "" ELSE c \o Rep(n - 1, c)

(* str(round(float(x), 3)): every coordinate of the model is within       *)
(* 0.0005 of its whole part                                               *)
fmt3(x) == ToString(x.w) \o ".0"

label(node) == fmt3(node.tree.lat) \o "," \o fmt3(node.tree.lon)

(* [line + u * ' ' for line in lines] *)
pad_right(lines, u) == [i \in 1..Len(lines) |-> lines[i] \o Rep(u, " ")]

(* [u * ' ' + line for line in lines] *)
pad_left(lines, u) == [i \in 1..Len(lines) |-> Rep(u, " ") \o lines[i]]

(* lines += [n * ' '] * k *)
extend(lines, n, k) ==
    lines \o [i \in 1..(IF k > 0 THEN k ELSE 0) |-> Rep(n, " ")]

max(a, b) == IF a > b THEN a ELSE b

(* <<lines, width, height, middle>> of a node that is not None *)
RECURSIVE _display_helper(_)
_display_helper(node) ==
    LET s == label(node)
        u == Len(s)
    IN  IF node.right = None /\ node.left = None
        THEN <<<<s>>, u, 1, u \div 2>>
        ELSE IF node.right = None
        THEN LET h == _display_helper(node.left)
                 lines == h[1]  n == h[2]  p == h[3]  x == h[4]
                 first_line == Rep(x + 1, " ") \o Rep(n - x - 1, "_") \o s
                 second_line == Rep(x, " ") \o "|" \o Rep(n - x - 1 + u, " ")
             IN  <<<<first_line, second_line>> \o pad_right(lines, u),
                   n + u, p + 2, n + u \div 2>>
        ELSE IF node.left = None
        THEN LET h == _display_helper(node.right)
                 lines == h[1]  n == h[2]  p == h[3]  x == h[4]
                 first_line == s \o Rep(x, "_") \o Rep(n - x, " ")
                 second_line == Rep(u + x, " ") \o "|" \o Rep(n - x - 1, " ")
             IN  <<<<first_line, second_line>> \o pad_left(lines, u),
                   n + u, p + 2, u \div 2>>
        ELSE LET l == _display_helper(node.left)
                 r == _display_helper(node.right)
                 n == l[2]  p == l[3]  x == l[4]
                 m == r[2]  q == r[3]  y == r[4]
                 left == extend(l[1], n, q - p)
                 right == extend(r[1], m, p - q)
                 first_line == Rep(x + 1, " ") \o Rep(n - x - 1, "_") \o s
                               \o Rep(y, "_") \o Rep(m - y, " ")
                 second_line == Rep(x, " ") \o "|" \o Rep(n - x - 1 + u + y, " ")
                                \o "|" \o Rep(m - y - 1, " ")
                 zipped == [i \in 1..Len(left) |-> left[i] \o Rep(u, " ") \o right[i]]
             IN  <<<<first_line, second_line>> \o zipped,
                   n + m + u, max(p, q) + 2, n + u \div 2>>

---------------------------------------------------------------------------
(* argsort.  A Python list seq is the sequence of its values; its index i *)
(* (from 0) is position i + 1 here.                                       *)

(* Variant: an index goes in front of the indices of equal values. *)
RECURSIVE insert_index_before_equal(_, _, _)
insert_index_before_equal(s, i, seq) ==
    IF s = <<>> THEN <<i>>
    ELSE IF seq[i + 1] <= seq[s[Len(s)] + 1]
         THEN Append(insert_index_before_equal(SubSeq(s, 1, Len(s) - 1), i, seq), s[Len(s)])
         ELSE Append(s, i)

(* index i goes behind every index whose value is not greater than its own *)
RECURSIVE insert_index(_, _, _)
insert_index(s, i, seq) ==
    IF s = <<>> THEN <<i>>
    ELSE IF seq[i + 1] < seq[s[Len(s)] + 1]
         THEN Append(insert_index(SubSeq(s, 1, Len(s) - 1), i, seq), s[Len(s)])
         ELSE Append(s, i)

(* sorted(range(n), key=seq.__getitem__): ascending by the value, stable *)
RECURSIVE sorted_range(_, _)
sorted_range(n, seq) ==
    IF n = 0 THEN <<>>
    ELSE insert_index(sorted_range(n - 1, seq), n - 1, seq)

argsort(seq) == sorted_range(Len(seq), seq)

(* The lists of integers a caller can pass to argsort. *)
Values == (0 - MaxValue)..MaxValue

Seqs == UNION {[1..n -> Values] : n \in 0..MaxLen}

---------------------------------------------------------------------------
(* How a call ends: with a value of some type, or with an exception. *)
Return(type, v) == <<"return", type, v>>
Raise(e) == <<"raise", "exception", e>>

(* display_tree: the lines it prints; on an empty index the helper reads  *)
(* node.right of None.                                                    *)
display_tree(root) ==
    IF root = None THEN Raise("AttributeError")
    ELSE Return("printed", _display_helper(root)[1])

---------------------------------------------------------------------------
(* The state machine: KDTree(data), then any sequence of queries. *)

Init ==
    /\ data \in Inputs
    /\ KDTree = None
    /\ pc = "new"
    /\ call = <<"none">>
    /\ ret = Return("NoneType", None)

(* KDTree.__init__ *)
Construct ==
    /\ pc = "new"
    /\ KDTree' = build_tree(data, 0)
    /\ data' = sorted_in_place(data, 0)
    /\ pc' = "ready"
    /\ call' = <<"__init__">>
    /\ ret' = Return("NoneType", None)

(* Variant: a lookup that descends by moving the root of the index. *)
Lookup_moving_root(lat, lon) ==
    /\ pc = "ready"
    /\ call' = <<"lookup", lat, lon>>
    /\ ret' = Return("bool", lookup(KDTree, lat, lon))
    /\ pc' = "returned"
    /\ KDTree' = IF KDTree = None THEN None ELSE KDTree.left
    /\ UNCHANGED data

(* KDTree.lookup *)
Lookup(lat, lon) ==
    /\ pc = "ready"
    /\ call' = <<"lookup", lat, lon>>
    /\ ret' = Return("bool", lookup(KDTree, lat, lon))
    /\ pc' = "returned"
    /\ UNCHANGED <<data, KDTree>>

(* KDTree.get_nearest *)
GetNearest(lat, lon) ==
    /\ pc = "ready"
    /\ call' = <<"get_nearest", lat, lon>>
    /\ ret' = Return("MunicipalTree", get_nearest(KDTree, lat, lon))
    /\ pc' = "returned"
    /\ UNCHANGED <<data, KDTree>>

(* KDTree.display_tree *)
DisplayTree ==
    /\ pc = "ready"
    /\ call' = <<"display_tree">>
    /\ ret' = display_tree(KDTree)
    /\ pc' = "returned"
    /\ UNCHANGED <<data, KDTree>>

(* The caller takes the result and is free to issue the next query. *)
Resume ==
    /\ pc = "returned"
    /\ pc' = "ready"
    /\ call' = <<"none">>
    /\ ret' = Return("NoneType", None)
    /\ UNCHANGED <<data, KDTree>>

Next ==
    \/ Construct
    \/ \E lat \in Lats, lon \in Lons : Lookup(lat, lon)
    \/ \E lat \in Lats, lon \in Lons : GetNearest(lat, lon)
    \/ DisplayTree
    \/ Resume

Spec == Init /\ [][Next]_vars

---------------------------------------------------------------------------
(* The module function argsort, called from a program whose index is      *)
(* empty.                                                                 *)

InitArgsort ==
    /\ data = <<>>
    /\ KDTree = None
    /\ pc = "ready"
    /\ call = <<"none">>
    /\ ret = Return("NoneType", None)

(* argsort(seq) *)
Argsort(seq) ==
    /\ pc = "ready"
    /\ call' = <<"argsort", seq>>
    /\ ret' = Return("list", argsort(seq))
    /\ pc' = "returned"
    /\ UNCHANGED <<data, KDTree>>

NextArgsort ==
    \/ \E seq \in Seqs : Argsort(seq)
    \/ Resume

SpecArgsort == InitArgsort /\ [][NextArgsort]_vars

---------------------------------------------------------------------------
(* A finer grid: the value 2 lies one unit from 1 and from 3.  Queries    *)
(* take any value of the finer grid; the collections are those above and  *)
(* those on the finer grid whose latitudes are distinct and whose         *)
(* longitudes are distinct.                                               *)

QueryLons == Lons \cup {Coord(2, 0)}

QueryLats == Lats \cup {Coord(2, 0)}

DistinctInputs ==
    UNION {{[i \in 1..n |-> MunicipalTree(i, pts[i][2], pts[i][1])] :
                pts \in {p \in [1..n -> QueryLats \X QueryLons] :
                            \A i, j \in 1..n :
                                i # j => p[i][1] # p[j][1] /\ p[i][2] # p[j][2]}} :
           n \in 0..MaxLen}

InitFine ==
    /\ data \in Inputs \cup DistinctInputs
    /\ KDTree = None
    /\ pc = "new"
    /\ call = <<"none">>
    /\ ret = Return("NoneType", None)

NextNearest ==
    \/ Construct
    \/ \E lat \in QueryLats, lon \in QueryLons : GetNearest(lat, lon)
    \/ Resume

SpecNearest == InitFine /\ [][NextNearest]_vars

NextLookup ==
    \/ Construct
    \/ \E lat \in QueryLats, lon \in QueryLons : Lookup(lat, lon)
    \/ Resume

SpecLookup == InitFine /\ [][NextLookup]_vars

---------------------------------------------------------------------------
(* Construction alone, on collections of one more record, so that a       *)
(* recursive call gets a slice of two records.  The records lie in the    *)
(* band of latitudes from 1 to one grid step above 1.                     *)

BandPoints == {lat \in Lats : lat.w = 1} \X Lons

LongInputs ==
    UNION {{[i \in 1..n |-> MunicipalTree(i, pts[i][2], pts[i][1])] :
                pts \in [1..n -> BandPoints]} : n \in 0..(MaxLen + 1)}

InitLong ==
    /\ data \in LongInputs
    /\ KDTree = None
    /\ pc = "new"
    /\ call = <<"none">>
    /\ ret = Return("NoneType", None)

NextConstruct == Construct

SpecConstruct == InitLong /\ [][NextConstruct]_vars





---------------------------------------------------------------------------
(* Vocabulary of the properties. *)

(* the records stored in the subtree of a node *)
RECURSIVE RecordsOf(_)
RecordsOf(node) ==
    IF node = None THEN {}
    ELSE {node.tree} \cup RecordsOf(node.left) \cup RecordsOf(node.right)

(* the number of nodes of a subtree *)
RECURSIVE Size(_)
Size(node) == IF node = None THEN 0 ELSE 1 + Size(node.left) + Size(node.right)

(* the number of levels of a subtree *)
RECURSIVE Height(_)
Height(node) ==
    IF node = None THEN 0 ELSE 1 + max(Height(node.left), Height(node.right))

(* the nodes of a subtree, each with its depth below the root call *)
RECURSIVE NodesAt(_, _)
NodesAt(node, depth) ==
    IF node = None THEN {}
    ELSE {<<node, depth>>} \cup NodesAt(node.left, depth + 1)
                           \cup NodesAt(node.right, depth + 1)

(* the records of a list *)
Range(s) == {s[i] : i \in 1..Len(s)}

(* the least h with 2^h >= n, for n >= 1 *)
RECURSIVE CeilLog2(_)
CeilLog2(n) == IF n <= 1 THEN 0 ELSE 1 + CeilLog2((n + 1) \div 2)

Constructed == pc # "new"

Returned(op) == pc = "returned" /\ call[1] = op

(* a record exactly at the query point *)
StoredAt(lat, lon) == \E t \in Range(data) : t.lat = lat /\ t.lon = lon

---------------------------------------------------------------------------
(* C1: get_nearest on a non-empty index returns a record whose distance   *)
(* to the query point is the minimum over all records, as a linear scan   *)
(* finds it.                                                              *)
C1_NearestAgreesWithLinearScan ==
    (Returned("get_nearest") /\ data # <<>>) =>
        /\ ret[3] \in Range(data)
        /\ \A t \in Range(data) :
              ~PolyLt(dist(t, call[2], call[3]), dist(ret[3], call[2], call[3]))

(* C2: lookup at the coordinates of a stored record returns True, also    *)
(* when records share a latitude or a longitude.                          *)
C2_LookupFindsEveryRecord ==
    (Returned("lookup") /\ StoredAt(call[2], call[3])) => ret[3] = TRUE

(* C3: at every node, the records of the left subtree are strictly below  *)
(* the pivot on the node's axis (depth mod 2) and those of the right      *)
(* subtree are at or above it.                                            *)
C3_PartitionInvariant ==
    Constructed =>
        \A nd \in NodesAt(KDTree, 0) :
            LET node == nd[1]
                dim == nd[2] % 2
            IN  /\ \A t \in RecordsOf(node.left) :
                      Lt(axis_value(t, dim), node.pivot)
                /\ \A t \in RecordsOf(node.right) :
                      ~Lt(axis_value(t, dim), node.pivot)

(* C4: the nodes of the built tree hold exactly the records passed in:  *)
(* as many nodes as records, and every record in a node.  Records are     *)
(* distinct objects, so the two together leave no room for a duplicate.   *)
C4_NodesHoldExactlyInput ==
    [][pc = "new" =>
          /\ Size(KDTree') = Len(data)
          /\ RecordsOf(KDTree') = Range(data)]_vars

C4_Witness ==
    /\ call[1] = "__init__"
    /\ Len(data) >= 3
    /\ Size(KDTree) = Len(data)

(* C5: lookup returns True only if some stored record has the query's     *)
(* latitude and longitude once both are rounded to 5 decimals; a query    *)
(* whose rounded coordinates match no stored record gets False.           *)
RoundedMatch(lat, lon) ==
    \E t \in Range(data) :
        round5(t.lat) = round5(lat) /\ round5(t.lon) = round5(lon)

C5_LookupTrueOnlyOnRoundedMatch ==
    Returned("lookup") =>
        /\ ret[3] = TRUE => RoundedMatch(call[2], call[3])
        /\ ~RoundedMatch(call[2], call[3]) => ret[3] = FALSE

(* True for a query that no record equals exactly, only after rounding *)
C5_Witness ==
    /\ Returned("lookup")
    /\ ret[3] = TRUE
    /\ ~StoredAt(call[2], call[3])

(* C6: build_tree(records, depth) on n >= 1 records stores the record at  *)
(* index n \div 2 of the records stably sorted by latitude (even depth)    *)
(* or longitude (odd depth), takes its axis value as pivot, and builds    *)
(* the left and right subtrees from the records before and after that     *)
(* index at depth + 1; records at (1,1), (2,2), (3,3) give root (2,2)     *)
(* with children (1,1) and (3,3).                                         *)

(* records[i] comes before records[j] in the stable ascending order *)
Precedes(records, i, j, dim) ==
    \/ Lt(axis_value(records[i], dim), axis_value(records[j], dim))
    \/ /\ axis_value(records[i], dim) = axis_value(records[j], dim)
       /\ i < j

(* the stable ascending order, position by position *)
StableOrder(records, dim) ==
    [k \in 1..Len(records) |->
        records[CHOOSE j \in 1..Len(records) :
            Cardinality({i \in 1..Len(records) : Precedes(records, i, j, dim)})
                = k - 1]]

RECURSIVE BuiltFrom(_, _, _)
BuiltFrom(node, records, depth) ==
    IF records = <<>> THEN node = None
    ELSE LET dim == depth % 2
             ordered == StableOrder(records, dim)
             n == Len(records)
             mid == n \div 2
         IN  /\ node # None
             /\ node.tree = ordered[mid + 1]
             /\ node.pivot = axis_value(node.tree, dim)
             /\ BuiltFrom(node.left, SubSeq(ordered, 1, mid), depth + 1)
             /\ BuiltFrom(node.right, SubSeq(ordered, mid + 2, n), depth + 1)

Leaf(tree, pivot) == _KDTNode(tree, pivot, None, None)

ThreeRecordScenario ==
    LET one == Coord(1, 0)  two == Coord(2, 0)  three == Coord(3, 0)
        a == MunicipalTree(1, one, one)
        b == MunicipalTree(2, two, two)
        c == MunicipalTree(3, three, three)
    IN  build_tree(<<a, b, c>>, 0) = _KDTNode(b, two, Leaf(a, one), Leaf(c, three))

C7_Balanced ==
    (Constructed /\ data # <<>>) =>
        /\ Height(KDTree) = CeilLog2(Len(data) + 1)
        /\ \A nd \in NodesAt(KDTree, 0) :
              Size(nd[1].left) - Size(nd[1].right) \in {0, 1}

(* a tree with a node whose left subtree is the larger one *)
C7_Witness ==
    /\ Constructed
    /\ Height(KDTree) >= 2
    /\ \E nd \in NodesAt(KDTree, 0) : Size(nd[1].left) = Size(nd[1].right) + 1

(* C8: lookup, get_nearest and the rendering leave the index as it was    *)
(* built, so a query issued after any others returns what it returns on   *)
(* the freshly built index.                                               *)
OnFreshIndex(c, root) ==
    CASE c[1] = "lookup" -> Return("bool", lookup(root, c[2], c[3]))
      [] c[1] = "get_nearest" -> Return("MunicipalTree", get_nearest(root, c[2], c[3]))
      [] c[1] = "display_tree" -> display_tree(root)
      [] OTHER -> Return("NoneType", None)

C8_QueriesLeaveIndexUnchanged ==
    [][Constructed =>
          /\ KDTree' = KDTree
          /\ data' = data
          /\ ret' = OnFreshIndex(call', build_tree(data, 0))]_vars

(* a query that returned a record of an index of several records *)
C8_Witness ==
    /\ Returned("get_nearest")
    /\ Size(KDTree) >= 2
    /\ ret[3] \in RecordsOf(KDTree)

(* C9: KDTree([]) succeeds with root None; on it lookup returns False and *)
(* get_nearest returns None, whatever the query point.                    *)
C9_EmptyIndex ==
    data = <<>> =>
        /\ Constructed => KDTree = None
        /\ call[1] = "__init__" => ret = Return("NoneType", None)
        /\ Returned("lookup") => ret = Return("bool", FALSE)
        /\ Returned("get_nearest") => ret = Return("MunicipalTree", None)

C9_Witness ==
    /\ data = <<>>
    /\ Returned("lookup") \/ Returned("get_nearest")

(* C10: lookup, get_nearest and display_tree complete without raising,    *)
(* on the index of any collection, the empty one included.                *)
C10_NoOperationRaises ==
    pc = "returned" => ret[1] = "return"

---------------------------------------------------------------------------
(* C11: for every list seq of N values, argsort(seq) is a permutation of   *)
(* the indices 0..N-1; the values taken in that order never decrease, and *)
(* of two equal values the one with the smaller index comes first;        *)
(* argsort([]) is [], and the documented examples come out as documented. *)
IsPermutationOfIndices(s, n) ==
    /\ Len(s) = n
    /\ \A i \in 0..(n - 1) : \E k \in 1..n : s[k] = i
    /\ \A k, l \in 1..n : s[k] = s[l] => k = l

AscendingAndStable(s, seq) ==
    \A k, l \in 1..Len(s) : k < l =>
        \/ seq[s[k] + 1] < seq[s[l] + 1]
        \/ seq[s[k] + 1] = seq[s[l] + 1] /\ s[k] < s[l]

DocumentedExamples ==
    /\ argsort(<<>>) = <<>>
    /\ argsort(<<3, 1, 2>>) = <<1, 2, 0>>
    /\ argsort(<<8, 6, 7, 5, 3, 0, 9>>) = <<5, 4, 3, 1, 2, 0, 6>>
    /\ argsort(<<0 - 3, 0 - 1, 0 - 2>>) = <<0, 2, 1>>
    /\ argsort(<<4, 2, 2, 3>>) = <<1, 2, 3, 0>>

C11_ArgsortStablePermutation ==
    Returned("argsort") =>
        /\ IsPermutationOfIndices(ret[3], Len(call[2]))
        /\ AscendingAndStable(ret[3], call[2])
        /\ call[2] = <<>> => ret[3] = <<>>
        /\ DocumentedExamples

(* argsort has returned for a list with two equal values and a smaller    *)
(* value behind them.                                                     *)
C11_Witness ==
    /\ Returned("argsort")
    /\ Len(call[2]) = 3
    /\ call[2][1] = call[2][2]
    /\ call[2][3] < call[2][1]
    /\ ret[3] = <<2, 0, 1>>

---------------------------------------------------------------------------
(* C12: if at every node the search visits the query's value on the       *)
(* node's axis is at most 1 away from the pivot (as it is when all        *)
(* records and the query lie within a span of 1 on each axis), then       *)
(* get_nearest returns a record at the least Euclidean distance from the  *)
(* query, also when records tie on an axis value.                         *)

(* |d| <= 1 for a coordinate difference d *)
WithinUnit(d) ==
    \/ d.w = 0
    \/ d.w = 1 /\ d.f <= 0
    \/ d.w = 0 - 1 /\ d.f >= 0

(* The search of _get_nearest_recursive, asking at every node it visits   *)
(* whether the query is within one unit of the pivot.                     *)
RECURSIVE SearchWithinUnit(_, _, _, _, _)
SearchWithinUnit(node, lat, lon, depth, best) ==
    IF node = None THEN TRUE
    ELSE LET d == dist(node.tree, lat, lon)
             best1 == IF closer(d, best) THEN <<node.tree, d>> ELSE best
             dim == depth % 2
             pivot == node.pivot
             q == query_value(lat, lon, dim)
             near == IF Lt(q, pivot) THEN node.left ELSE node.right
             far == IF Lt(q, pivot) THEN node.right ELSE node.left
             best2 == _get_nearest_recursive(near, lat, lon, depth + 1, best1)
         IN  /\ WithinUnit(Diff(pivot, q))
             /\ SearchWithinUnit(near, lat, lon, depth + 1, best1)
             /\ far_side_needed(pivot, q, best2)
                    => SearchWithinUnit(far, lat, lon, depth + 1, best2)

(* All records and the query lie within a span of 1 on each axis. *)
SpanWithinUnit(lat, lon) ==
    /\ \A t \in Range(data) : WithinUnit(Diff(t.lat, lat)) /\ WithinUnit(Diff(t.lon, lon))
    /\ \A t, u \in Range(data) : WithinUnit(Diff(t.lat, u.lat)) /\ WithinUnit(Diff(t.lon, u.lon))

NearestIsClosest ==
    /\ ret[3] \in Range(data)
    /\ \A t \in Range(data) :
          ~PolyLt(dist(t, call[2], call[3]), dist(ret[3], call[2], call[3]))

C12_NearestExactWithinUnit ==
    (Returned("get_nearest") /\ data # <<>>) =>
        /\ SearchWithinUnit(KDTree, call[2], call[3], 0, <<None, inf>>) => NearestIsClosest
        /\ SpanWithinUnit(call[2], call[3]) => NearestIsClosest

(* A search within one unit of every pivot it visits, at exactly one unit *)
(* from the root's pivot, whose answer lies in the root's other subtree   *)
(* and ties with the root on the root's axis.                             *)
C12_Witness ==
    /\ Returned("get_nearest")
    /\ KDTree # None
    /\ SearchWithinUnit(KDTree, call[2], call[3], 0, <<None, inf>>)
    /\ Diff(call[2], KDTree.pivot) = Coord(1, 0)
    /\ ret[3] \in RecordsOf(KDTree.left)
    /\ ret[3].lat = KDTree.pivot

---------------------------------------------------------------------------
(* C13: when no two records share a latitude and no two share a           *)
(* longitude, every record of a left subtree is strictly below the pivot  *)
(* of that subtree's parent on the parent's axis, and lookup of a         *)
(* record's coordinates returns True; whatever the records, lookup of a   *)
(* record's coordinates returns False only if the record lies in the left *)
(* subtree of a node whose pivot equals the record's value on that node's *)
(* axis.                                                                  *)
DistinctAxes ==
    \A i, j \in 1..Len(data) :
        i # j => data[i].lat # data[j].lat /\ data[i].lon # data[j].lon

LeftStrictlyBelow ==
    \A nd \in NodesAt(KDTree, 0) :
        \A t \in RecordsOf(nd[1].left) : Lt(axis_value(t, nd[2] % 2), nd[1].pivot)

LeftOfEqualPivot(t) ==
    \E nd \in NodesAt(KDTree, 0) :
        /\ t \in RecordsOf(nd[1].left)
        /\ nd[1].pivot = axis_value(t, nd[2] % 2)

C13_LookupWithoutSharedCoordinates ==
    /\ (Constructed /\ DistinctAxes) => LeftStrictlyBelow
    /\ (Returned("lookup") /\ DistinctAxes /\ StoredAt(call[2], call[3])) => ret[3] = TRUE
    /\ (Returned("lookup") /\ ret[3] = FALSE) =>
          \A t \in Range(data) :
              (t.lat = call[2] /\ t.lon = call[3]) => LeftOfEqualPivot(t)

(* Three records without a shared latitude or longitude; the one looked   *)
(* up is in the root's left subtree and is found.                         *)
C13_Witness ==
    /\ Returned("lookup")
    /\ ret[3] = TRUE
    /\ DistinctAxes
    /\ Size(KDTree) = 3
    /\ \E t \in RecordsOf(KDTree.left) : t.lat = call[2] /\ t.lon = call[3]

---------------------------------------------------------------------------
(* C14: KDTree(data) sorts the caller's list in place.  Afterwards the    *)
(* list holds the same records as before, each as often as before and     *)
(* with its fields as they were, in ascending order of latitude, records  *)
(* of equal latitude in their original relative order; the recursive      *)
(* calls, which work on slices, reorder nothing further.                  *)
Count(s, t) == Cardinality({i \in 1..Len(s) : s[i] = t})

SameRecords(before, after) ==
    /\ Len(after) = Len(before)
    /\ \A t \in Range(before) \cup Range(after) : Count(after, t) = Count(before, t)

AscendingLatitude(s) ==
    \A k, l \in 1..Len(s) : k < l => ~Lt(s[l].lat, s[k].lat)

(* the first position of record t in the list s *)
Position(s, t) == CHOOSE i \in 1..Len(s) : s[i] = t /\ \A j \in 1..(i - 1) : s[j] # t

TiesInOriginalOrder(before, after) ==
    \A k, l \in 1..Len(after) :
        (k < l /\ after[k].lat = after[l].lat)
            => Position(before, after[k]) <= Position(before, after[l])

C14_ConstructionSortsCallersList ==
    [][pc = "new" =>
          /\ SameRecords(data, data')
          /\ AscendingLatitude(data')
          /\ TiesInOriginalOrder(data, data')
          /\ \A k \in 1..Len(data) : data'[k] = StableOrder(data, 0)[k]]_vars

(* Four records have been indexed.  The list is no longer in the order of *)
(* creation; its first two records share a latitude and kept their order; *)
(* they are the slice a recursive call sorted by longitude, the tree      *)
(* holds them in that order and the list does not.                        *)
C14_Witness ==
    /\ call[1] = "__init__"
    /\ Len(data) = 4
    /\ \E i, j \in 1..4 : i < j /\ data[i].id > data[j].id
    /\ data[1].lat = data[2].lat
    /\ data[1].id < data[2].id
    /\ Lt(data[2].lon, data[1].lon)
    /\ KDTree.left.tree = data[1]
    /\ KDTree.left.left.tree = data[2]

====
